---- MODULE Spec2Model ----
(***************************************************************************)
(* A model of hrd.py, a solver for Hua Rong Dao sliding-block puzzles:     *)
(* the loader (read_from_file), the Board with its derived grid, the move  *)
(* generator (State.generate_successors), the two searches (astar, dfs)    *)
(* and the path extraction of output_solution.                             *)
(*                                                                         *)
(* Representation.                                                         *)
(*  - A character is a one-character string; a line of the puzzle file is  *)
(*    a sequence of characters without its trailing newline, the blank     *)
(*    line is the empty sequence.                                          *)
(*  - A Python dict whose iteration order the program relies on            *)
(*    (Board.pieces) is a sequence of entries [key, piece] in insertion    *)
(*    order.                                                               *)
(*  - grid[y][x] of the program is grid[y + 1][x + 1] here.                *)
(*  - A State object is an entry of the sequence pool, in creation order;  *)
(*    a reference to a State is its index in pool, None is 0.              *)
(*  - A uuid4 is the number of the Piece that minted it.                   *)
(*  - Boards are held twice: by value, in pool, and as Python holds them,  *)
(*    as references to Piece objects, in piece_objs and piece_refs; a      *)
(*    reference is an index in piece_objs.                                 *)
(***************************************************************************)
EXTENDS Integers, Sequences, FiniteSets, TLC

VARIABLES
    puzzle_file,      \* the lines of the input file
    loaded,           \* TRUE once read_from_file has run
    load_error,       \* TRUE when read_from_file raised
    board,            \* the initial Board (read_from_file's first result)
    goal_board,       \* the goal Board (read_from_file's second result)
    goal_board_dict,  \* uid -> goal Piece, shared by every live board
    algo,             \* "none", "astar" or "dfs"
    pc,               \* "main", "loaded", "search", "returned", "done"; in
                      \* BoardSpec "board_init", "board_done"
    pool,             \* every State created so far
    heap_lst,         \* astar's heap: a sequence of <<f, state>>
    stack,            \* dfs's stack: a sequence of states, top last
    visited,          \* the set of str(board) already popped
    state,            \* the search's return value (0 is None)
    output,           \* the lines output_solution prints
    expanded,         \* history: str(board) of every generate_successors call
    piece_objs,       \* every Piece object of a search board, in creation order
    piece_refs        \* per State of pool: its board's pieces dict, the values
                      \* as references into piece_objs

vars == <<puzzle_file, loaded, load_error, board, goal_board, goal_board_dict,
          algo, pc, pool, heap_lst, stack, visited, state, output, expanded,
          piece_objs, piece_refs>>

----------------------------------------------------------------------------
(* Python helpers *)

Abs(n) == IF n < 0 THEN -n ELSE n

\* The position a list of length n gives to index i; -1 stands for IndexError.
PyIndex(i, n) ==
    IF 0 <= i /\ i < n THEN i
    ELSE IF -n <= i /\ i < 0 THEN i + n
    ELSE -1

IndexError == "IndexError"

\* What a grid becomes once a write to it raised IndexError.
IndexErrorGrid == <<<<IndexError>>>>

char_single == "2"
char_empty == "."
width == 4

----------------------------------------------------------------------------
(* Piece *)

Piece(is_2_by_2, is_single, coord_x, coord_y, orientation, uid) ==
    [is_2_by_2 |-> is_2_by_2, is_single |-> is_single,
     coord_x |-> coord_x, coord_y |-> coord_y,
     orientation |-> orientation, uid |-> uid]

set_coords(piece, coord_x, coord_y) ==
    [piece EXCEPT !.coord_x = coord_x, !.coord_y = coord_y]

----------------------------------------------------------------------------
(* dict operations on a sequence of entries [key, piece] *)

DictKeys(d) == {d[i].key : i \in 1..Len(d)}

DictIndex(d, k) == CHOOSE i \in 1..Len(d) : d[i].key = k

DictGet(d, k) == d[DictIndex(d, k)].piece

\* d.pop(k) leaves the other entries in their order.
DictRemove(d, k) ==
    LET i == DictIndex(d, k)
    IN  SubSeq(d, 1, i - 1) \o SubSeq(d, i + 1, Len(d))

\* d[k] = v replaces the value of a present key in place, appends a new key.
DictSet(d, k, v) ==
    IF k \in DictKeys(d)
    THEN [d EXCEPT ![DictIndex(d, k)] = [key |-> k, piece |-> v]]
    ELSE Append(d, [key |-> k, piece |-> v])

----------------------------------------------------------------------------
(* Board *)

\* grid[y][x] = ch
GridSet(grid, y, x, ch) ==
    IF grid = IndexErrorGrid THEN IndexErrorGrid
    ELSE LET yy == PyIndex(y, Len(grid))
         IN  IF yy = -1 THEN IndexErrorGrid
             ELSE LET xx == PyIndex(x, Len(grid[yy + 1]))
                  IN  IF xx = -1 THEN IndexErrorGrid
                      ELSE [grid EXCEPT ![yy + 1][xx + 1] = ch]

\* grid[y][x]
GridGet(grid, y, x) ==
    LET yy == PyIndex(y, Len(grid))
    IN  IF yy = -1 THEN IndexError
        ELSE LET xx == PyIndex(x, Len(grid[yy + 1]))
             IN  IF xx = -1 THEN IndexError ELSE grid[yy + 1][xx + 1]

\* A stamp that leaves out the second cell of a 1x2 piece.
StampPieceFirstCell(grid, piece) ==
    LET x == piece.coord_x
        y == piece.coord_y
    IN  IF piece.is_2_by_2
        THEN GridSet(GridSet(GridSet(GridSet(grid, y, x, "1"),
                                     y, x + 1, "1"),
                             y + 1, x, "1"),
                     y + 1, x + 1, "1")
        ELSE IF piece.is_single
        THEN GridSet(grid, y, x, char_single)
        ELSE IF piece.orientation = "h"
        THEN GridSet(grid, y, x, "<")
        ELSE IF piece.orientation = "v"
        THEN GridSet(grid, y, x, "^")
        ELSE grid

\* The body of update_grid's loop for one piece.
StampPiece(grid, piece) ==
    LET x == piece.coord_x
        y == piece.coord_y
    IN  IF piece.is_2_by_2
        THEN GridSet(GridSet(GridSet(GridSet(grid, y, x, "1"),
                                     y, x + 1, "1"),
                             y + 1, x, "1"),
                     y + 1, x + 1, "1")
        ELSE IF piece.is_single
        THEN GridSet(grid, y, x, char_single)
        ELSE IF piece.orientation = "h"
        THEN GridSet(GridSet(grid, y, x, "<"), y, x + 1, ">")
        ELSE IF piece.orientation = "v"
        THEN GridSet(GridSet(grid, y, x, "^"), y + 1, x, "v")
        ELSE grid

RECURSIVE StampFrom(_, _, _)
StampFrom(grid, pieces, i) ==
    IF i > Len(pieces) THEN grid
    ELSE StampFrom(StampPiece(grid, pieces[i].piece), pieces, i + 1)

BlankGrid(height) == [y \in 1..height |-> [x \in 1..width |-> "."]]

update_grid(height, pieces) == StampFrom(BlankGrid(height), pieces, 1)

Board(height, pieces) ==
    [height |-> height, pieces |-> pieces, grid |-> update_grid(height, pieces)]

\* An equality that compares the first rows only.
BoardEqFirstRow(b1, b2) == b1.grid[1] = b2.grid[1]

\* Board.__eq__
BoardEq(b1, b2) == b1.grid = b2.grid

\* str(arr) of one row: "['.', '2', '<', '>']"
RECURSIVE RowStr(_, _)
RowStr(row, i) ==
    IF i > Len(row) THEN <<"]">>
    ELSE (IF i = 1 THEN <<"[">> ELSE <<", ">>) \o <<"'", row[i], "'">> \o RowStr(row, i + 1)

\* Board.__str__: the rows' renderings, concatenated
RECURSIVE BoardStrFrom(_, _)
BoardStrFrom(grid, i) ==
    IF i > Len(grid) THEN <<>>
    ELSE (IF Len(grid[i]) = 0 THEN <<"[", "]">> ELSE RowStr(grid[i], 1))
         \o BoardStrFrom(grid, i + 1)

BoardStr(b) == BoardStrFrom(b.grid, 1)

\* A copy that re-keys the moved piece and leaves its coordinates as they were.
copy_board_stale_coords(self, new_key, old) ==
    LET pieces == [i \in 1..Len(self.pieces) |->
                     [key |-> self.pieces[i].key,
                      piece |-> Piece(self.pieces[i].piece.is_2_by_2,
                                      self.pieces[i].piece.is_single,
                                      self.pieces[i].piece.coord_x,
                                      self.pieces[i].piece.coord_y,
                                      self.pieces[i].piece.orientation,
                                      self.pieces[i].piece.uid)]]
        popped == DictGet(pieces, old)
        rekeyed == DictSet(DictRemove(pieces, old), new_key, popped)
    IN  Board(self.height, rekeyed)

copy_board(self, new_key, old) ==
    LET pieces == [i \in 1..Len(self.pieces) |->
                     [key |-> self.pieces[i].key,
                      piece |-> Piece(self.pieces[i].piece.is_2_by_2,
                                      self.pieces[i].piece.is_single,
                                      self.pieces[i].piece.coord_x,
                                      self.pieces[i].piece.coord_y,
                                      self.pieces[i].piece.orientation,
                                      self.pieces[i].piece.uid)]]
        popped == DictGet(pieces, old)
        rekeyed == DictSet(DictRemove(pieces, old), new_key, popped)
        moved == DictSet(rekeyed, new_key,
                         set_coords(DictGet(rekeyed, new_key), new_key[1], new_key[2]))
    IN  Board(self.height, moved)

----------------------------------------------------------------------------
(* read_from_file *)

\* find_min_index: the 0-based index of the first piece of arr at minimum
\* Manhattan distance from (x, y); 0 when arr is empty.
RECURSIVE FindMinFrom(_, _, _, _, _, _)
FindMinFrom(arr, x, y, i, min_i, min_dist) ==
    IF i > Len(arr) THEN min_i
    ELSE LET new_dist == Abs(x - arr[i].coord_x) + Abs(y - arr[i].coord_y)
         IN  IF min_dist = -1 \/ new_dist < min_dist
             THEN FindMinFrom(arr, x, y, i + 1, i - 1, new_dist)
             ELSE FindMinFrom(arr, x, y, i + 1, min_i, min_dist)

\* A choice that takes the first piece of the list, whatever the distances.
find_min_index_first(arr, x, y) == 0

\* min_dist starts at float('inf'), written -1 here.
find_min_index(arr, x, y) == FindMinFrom(arr, x, y, 1, 0, -1)

\* arr.pop(i) for a 0-based i within range
ListRemove(arr, i) == SubSeq(arr, 1, i) \o SubSeq(arr, i + 2, Len(arr))

\* The loader's local variables before the first line is read; minted counts
\* the uuid4 values drawn so far.
LoaderStart ==
    [goal_board_dict |-> <<>>, singles |-> <<>>, vert |-> <<>>, hori |-> <<>>,
     double |-> <<>>, line_index |-> 0, pieces |-> <<>>, final_pieces |-> <<>>,
     final |-> FALSE, found_2by2 |-> FALSE, finalfound_2by2 |-> FALSE,
     height_ |-> 0, minted |-> 0, error |-> FALSE]

\* goal_board_dict[uid] = piece
GoalDictSet(d, uid, piece) ==
    [u \in (DOMAIN d) \cup {uid} |-> IF u = uid THEN piece ELSE d[u]]

\* One character of a line of the initial layout (lines 286-303).
InitialChar(L, x, ch) ==
    LET uid == L.minted + 1
        y == L.line_index
    IN  IF ch = "^"
        THEN LET piece == Piece(FALSE, FALSE, x, y, "v", uid)
             IN  [L EXCEPT !.pieces = DictSet(@, <<x, y>>, piece),
                           !.vert = Append(@, piece), !.minted = uid]
        ELSE IF ch = "<"
        THEN LET piece == Piece(FALSE, FALSE, x, y, "h", uid)
             IN  [L EXCEPT !.pieces = DictSet(@, <<x, y>>, piece),
                           !.hori = Append(@, piece), !.minted = uid]
        ELSE IF ch = char_single
        THEN LET piece == Piece(FALSE, TRUE, x, y, "None", uid)
             IN  [L EXCEPT !.pieces = DictSet(@, <<x, y>>, piece),
                           !.singles = Append(@, piece), !.minted = uid]
        ELSE IF ch = "1" /\ L.found_2by2 = FALSE
        THEN LET piece == Piece(TRUE, FALSE, x, y, "None", uid)
             IN  [L EXCEPT !.pieces = DictSet(@, <<x, y>>, piece),
                           !.double = <<piece>>, !.found_2by2 = TRUE,
                           !.minted = uid]
        ELSE L

\* One character of a line of the goal layout (lines 306-327). Popping from an
\* empty list, and reading double.uid when double is None, raise.
GoalChar(L, x, ch) ==
    LET y == L.line_index
    IN  IF ch = "^"
        THEN IF L.vert = <<>> THEN [L EXCEPT !.error = TRUE]
             ELSE LET i == find_min_index(L.vert, x, y)
                      uid == L.vert[i + 1].uid
                      piece == Piece(FALSE, FALSE, x, y, "v", uid)
                  IN  [L EXCEPT !.vert = ListRemove(@, i),
                                !.final_pieces = DictSet(@, <<x, y>>, piece),
                                !.goal_board_dict = GoalDictSet(@, uid, piece)]
        ELSE IF ch = "<"
        THEN IF L.hori = <<>> THEN [L EXCEPT !.error = TRUE]
             ELSE LET i == find_min_index(L.hori, x, y)
                      uid == L.hori[i + 1].uid
                      piece == Piece(FALSE, FALSE, x, y, "h", uid)
                  IN  [L EXCEPT !.hori = ListRemove(@, i),
                                !.final_pieces = DictSet(@, <<x, y>>, piece),
                                !.goal_board_dict = GoalDictSet(@, uid, piece)]
        ELSE IF ch = char_single
        THEN IF L.singles = <<>> THEN [L EXCEPT !.error = TRUE]
             ELSE LET i == find_min_index(L.singles, x, y)
                      uid == L.singles[i + 1].uid
                      piece == Piece(FALSE, TRUE, x, y, "None", uid)
                  IN  [L EXCEPT !.singles = ListRemove(@, i),
                                !.final_pieces = DictSet(@, <<x, y>>, piece),
                                !.goal_board_dict = GoalDictSet(@, uid, piece)]
        ELSE IF ch = "1" /\ L.finalfound_2by2 = FALSE
        THEN IF L.double = <<>> THEN [L EXCEPT !.error = TRUE]
             ELSE LET uid == L.double[1].uid
                      piece == Piece(TRUE, FALSE, x, y, "None", uid)
                  IN  [L EXCEPT !.final_pieces = DictSet(@, <<x, y>>, piece),
                                !.goal_board_dict = GoalDictSet(@, uid, piece),
                                !.finalfound_2by2 = TRUE]
        ELSE L

\* for x, ch in enumerate(line)
RECURSIVE ReadChars(_, _, _)
ReadChars(L, line, i) ==
    IF i > Len(line) \/ L.error THEN L
    ELSE ReadChars(IF L.final THEN GoalChar(L, i - 1, line[i])
                   ELSE InitialChar(L, i - 1, line[i]),
                   line, i + 1)

\* One iteration of "for line in puzzle_file" (lines 276-328).
ReadLine(L, line) ==
    LET L1 == [L EXCEPT !.height_ = @ + 1]
    IN  IF line = <<>>
        THEN IF ~L1.final
             THEN [L1 EXCEPT !.height_ = 0, !.final = TRUE, !.line_index = 0]
             ELSE L1
        ELSE LET L2 == ReadChars(L1, line, 1)
             IN  IF L2.error THEN L2 ELSE [L2 EXCEPT !.line_index = @ + 1]

RECURSIVE ReadLines(_, _, _)
ReadLines(L, lines, i) ==
    IF i > Len(lines) \/ L.error THEN L
    ELSE ReadLines(ReadLine(L, lines[i]), lines, i + 1)

\* The loader's locals when the loop over the file ends.
read_from_file(lines) == ReadLines(LoaderStart, lines, 1)

----------------------------------------------------------------------------
(* State *)

State(b, hfn, f, depth, parent) ==
    [board |-> b, hfn |-> hfn, f |-> f, depth |-> depth, parent |-> parent]

\* new_keys.append(key) under the condition c
AppendIf(c, key) == IF c THEN <<key>> ELSE <<>>

\* grid[yy][xx] == char_empty on board b
IsEmpty(b, yy, xx) == GridGet(b.grid, yy, xx) = char_empty

\* The destinations generate_successors collects for one piece, in the order
\* it appends them. Each boundary test is the left conjunct of the grid
\* reads it guards, as in the nested ifs.

\* A 2x2 block that tests one cell of the edge it moves into, not both.
Keys2By2OneCell(b, x, y) ==
    AppendIf((x - 1) >= 0 /\ IsEmpty(b, y, x - 1), <<x - 1, y>>)
    \o AppendIf((y - 1) >= 0 /\ IsEmpty(b, y - 1, x), <<x, y - 1>>)
    \o AppendIf((x + 2) < width /\ IsEmpty(b, y, x + 2), <<x + 1, y>>)
    \o AppendIf((y + 2) < b.height /\ IsEmpty(b, y + 2, x), <<x, y + 1>>)

\* piece.is_2_by_2 (lines 175-190)
Keys2By2(b, x, y) ==
    AppendIf((x - 1) >= 0 /\ IsEmpty(b, y, x - 1) /\ IsEmpty(b, y + 1, x - 1),
             <<x - 1, y>>)
    \o AppendIf((y - 1) >= 0 /\ IsEmpty(b, y - 1, x) /\ IsEmpty(b, y - 1, x + 1),
                <<x, y - 1>>)
    \o AppendIf((x + 2) < width /\ IsEmpty(b, y, x + 2) /\ IsEmpty(b, y + 1, x + 2),
                <<x + 1, y>>)
    \o AppendIf((y + 2) < b.height /\ IsEmpty(b, y + 2, x) /\ IsEmpty(b, y + 2, x + 1),
                <<x, y + 1>>)

\* A 1x1 piece that moves to any neighbouring cell of the board, empty or
\* not.
KeysSingleAnyNeighbour(b, x, y) ==
    AppendIf((x - 1) >= 0, <<x - 1, y>>)
    \o AppendIf((y - 1) >= 0, <<x, y - 1>>)
    \o AppendIf((x + 1) < width, <<x + 1, y>>)
    \o AppendIf((y + 1) < b.height, <<x, y + 1>>)

\* piece.is_single (lines 192-207)
KeysSingle(b, x, y) ==
    AppendIf((x - 1) >= 0 /\ IsEmpty(b, y, x - 1), <<x - 1, y>>)
    \o AppendIf((y - 1) >= 0 /\ IsEmpty(b, y - 1, x), <<x, y - 1>>)
    \o AppendIf((x + 1) < width /\ IsEmpty(b, y, x + 1), <<x + 1, y>>)
    \o AppendIf((y + 1) < b.height /\ IsEmpty(b, y + 1, x), <<x, y + 1>>)

\* piece.orientation == 'h' (lines 209-224)
KeysHorizontal(b, x, y) ==
    AppendIf((x - 1) >= 0 /\ IsEmpty(b, y, x - 1), <<x - 1, y>>)
    \o AppendIf((y - 1) >= 0 /\ IsEmpty(b, y - 1, x) /\ IsEmpty(b, y - 1, x + 1),
                <<x, y - 1>>)
    \o AppendIf((x + 2) < width /\ IsEmpty(b, y, x + 2), <<x + 1, y>>)
    \o AppendIf((y + 1) < b.height /\ IsEmpty(b, y + 1, x) /\ IsEmpty(b, y + 1, x + 1),
                <<x, y + 1>>)

\* the else branch: a vertical piece (lines 226-241)
KeysVertical(b, x, y) ==
    AppendIf((x - 1) >= 0 /\ IsEmpty(b, y, x - 1) /\ IsEmpty(b, y + 1, x - 1),
             <<x - 1, y>>)
    \o AppendIf((y - 1) >= 0 /\ IsEmpty(b, y - 1, x), <<x, y - 1>>)
    \o AppendIf((x + 1) < width /\ IsEmpty(b, y, x + 1) /\ IsEmpty(b, y + 1, x + 1),
                <<x + 1, y>>)
    \o AppendIf((y + 2) < b.height /\ IsEmpty(b, y + 2, x), <<x, y + 1>>)

new_keys(b, piece) ==
    IF piece.is_2_by_2 THEN Keys2By2(b, piece.coord_x, piece.coord_y)
    ELSE IF piece.is_single THEN KeysSingle(b, piece.coord_x, piece.coord_y)
    ELSE IF piece.orientation = "h" THEN KeysHorizontal(b, piece.coord_x, piece.coord_y)
    ELSE KeysVertical(b, piece.coord_x, piece.coord_y)

\* The grid index pairs <<yy, xx>> that "if bound: if grid[..] == char_empty
\* and grid[..] == char_empty" reads on board b: none when the boundary test
\* fails, the second cell only when the first one is empty.
GuardedReads(b, bound, cells) ==
    IF ~bound THEN {}
    ELSE IF Len(cells) = 1 THEN {cells[1]}
    ELSE {cells[1]} \cup (IF IsEmpty(b, cells[1][1], cells[1][2])
                          THEN {cells[2]} ELSE {})

\* piece.is_2_by_2 (lines 175-190)
Reads2By2(b, x, y) ==
    GuardedReads(b, (x - 1) >= 0, <<<<y, x - 1>>, <<y + 1, x - 1>>>>)
    \cup GuardedReads(b, (y - 1) >= 0, <<<<y - 1, x>>, <<y - 1, x + 1>>>>)
    \cup GuardedReads(b, (x + 2) < width, <<<<y, x + 2>>, <<y + 1, x + 2>>>>)
    \cup GuardedReads(b, (y + 2) < b.height, <<<<y + 2, x>>, <<y + 2, x + 1>>>>)

\* The 1x1 branch with the test of the left neighbour unguarded.
ReadsSingleUnguarded(b, x, y) ==
    GuardedReads(b, TRUE, <<<<y, x - 1>>>>)
    \cup GuardedReads(b, (y - 1) >= 0, <<<<y - 1, x>>>>)
    \cup GuardedReads(b, (x + 1) < width, <<<<y, x + 1>>>>)
    \cup GuardedReads(b, (y + 1) < b.height, <<<<y + 1, x>>>>)

\* piece.is_single (lines 192-207)
ReadsSingle(b, x, y) ==
    GuardedReads(b, (x - 1) >= 0, <<<<y, x - 1>>>>)
    \cup GuardedReads(b, (y - 1) >= 0, <<<<y - 1, x>>>>)
    \cup GuardedReads(b, (x + 1) < width, <<<<y, x + 1>>>>)
    \cup GuardedReads(b, (y + 1) < b.height, <<<<y + 1, x>>>>)

\* piece.orientation == 'h' (lines 209-224)
ReadsHorizontal(b, x, y) ==
    GuardedReads(b, (x - 1) >= 0, <<<<y, x - 1>>>>)
    \cup GuardedReads(b, (y - 1) >= 0, <<<<y - 1, x>>, <<y - 1, x + 1>>>>)
    \cup GuardedReads(b, (x + 2) < width, <<<<y, x + 2>>>>)
    \cup GuardedReads(b, (y + 1) < b.height, <<<<y + 1, x>>, <<y + 1, x + 1>>>>)

\* the else branch (lines 226-241)
ReadsVertical(b, x, y) ==
    GuardedReads(b, (x - 1) >= 0, <<<<y, x - 1>>, <<y + 1, x - 1>>>>)
    \cup GuardedReads(b, (y - 1) >= 0, <<<<y - 1, x>>>>)
    \cup GuardedReads(b, (x + 1) < width, <<<<y, x + 1>>, <<y + 1, x + 1>>>>)
    \cup GuardedReads(b, (y + 2) < b.height, <<<<y + 2, x>>>>)

\* The index pairs of self.board.grid that generate_successors reads for one
\* piece (lines 175-241).
grid_reads(b, piece) ==
    IF piece.is_2_by_2 THEN Reads2By2(b, piece.coord_x, piece.coord_y)
    ELSE IF piece.is_single THEN ReadsSingle(b, piece.coord_x, piece.coord_y)
    ELSE IF piece.orientation = "h" THEN ReadsHorizontal(b, piece.coord_x, piece.coord_y)
    ELSE ReadsVertical(b, piece.coord_x, piece.coord_y)

\* The update with the two distances exchanged.
SuccessorHfnSwapped(hfn, piece, new_key, gbd) ==
    LET goal_piece == gbd[piece.uid]
        old_man_dist == Abs(piece.coord_x - goal_piece.coord_x)
                        + Abs(piece.coord_y - goal_piece.coord_y)
        new_man_dist == Abs(new_key[1] - goal_piece.coord_x)
                        + Abs(new_key[2] - goal_piece.coord_y)
    IN  (hfn - new_man_dist) + old_man_dist

\* The heuristic of the successor that moves piece to new_key (lines 244-248).
SuccessorHfn(hfn, piece, new_key, gbd) ==
    LET goal_piece == gbd[piece.uid]
        old_man_dist == Abs(piece.coord_x - goal_piece.coord_x)
                        + Abs(piece.coord_y - goal_piece.coord_y)
        new_man_dist == Abs(new_key[1] - goal_piece.coord_x)
                        + Abs(new_key[2] - goal_piece.coord_y)
    IN  (hfn - old_man_dist) + new_man_dist

\* Successors created at the depth of the State they come from.
SuccessorsOfPieceSameDepth(self, ref, piece, gbd) ==
    LET keys == new_keys(self.board, piece)
    IN  [k \in 1..Len(keys) |->
           State(copy_board(self.board, keys[k], <<piece.coord_x, piece.coord_y>>),
                 SuccessorHfn(self.hfn, piece, keys[k], gbd),
                 self.f, self.depth, ref)]

\* The States the loop of lines 243-248 appends for one piece; ref is the
\* expanded State's reference.
SuccessorsOfPiece(self, ref, piece, gbd) ==
    LET keys == new_keys(self.board, piece)
    IN  [k \in 1..Len(keys) |->
           State(copy_board(self.board, keys[k], <<piece.coord_x, piece.coord_y>>),
                 SuccessorHfn(self.hfn, piece, keys[k], gbd),
                 self.f, self.depth + 1, ref)]

RECURSIVE SuccessorsFrom(_, _, _, _)
SuccessorsFrom(self, ref, gbd, i) ==
    IF i > Len(self.board.pieces) THEN <<>>
    ELSE SuccessorsOfPiece(self, ref, self.board.pieces[i].piece, gbd)
         \o SuccessorsFrom(self, ref, gbd, i + 1)

\* State.generate_successors: new_states, in order
generate_successors(self, ref, gbd) == SuccessorsFrom(self, ref, gbd, 1)

----------------------------------------------------------------------------
(* copy_board and generate_successors on the Piece objects *)

\* The pieces dict of a board whose Piece objects are piece_objs[1], [2], ...
\* in the dict's order: the board the loader builds.
BoardRefs(b) ==
    [i \in 1..Len(b.pieces) |-> [key |-> b.pieces[i].key, piece |-> i]]

\* A copy that puts the Piece objects of self into the new dict instead of
\* new ones.
copy_board_objects_shared(objs, refs, new_key, old) ==
    LET pieces == refs
        rekeyed == DictSet(DictRemove(pieces, old), new_key, DictGet(pieces, old))
        moved == DictGet(rekeyed, new_key)
    IN  [objs |-> [objs EXCEPT ![moved] = set_coords(@, new_key[1], new_key[2])],
         pieces |-> rekeyed]

\* Board.copy_board on the objects: objs is every Piece object so far, refs
\* the dict self.pieces. Line 95 creates one Piece per entry, line 98 re-keys
\* the new dict, line 99 calls set_coords on the object the new dict holds
\* at new_key. The result is the objects afterwards and the new board's dict.
copy_board_objects(objs, refs, new_key, old) ==
    LET created == [i \in 1..Len(refs) |->
                      Piece(objs[refs[i].piece].is_2_by_2,
                            objs[refs[i].piece].is_single,
                            objs[refs[i].piece].coord_x,
                            objs[refs[i].piece].coord_y,
                            objs[refs[i].piece].orientation,
                            objs[refs[i].piece].uid)]
        pieces == [i \in 1..Len(refs) |->
                     [key |-> refs[i].key, piece |-> Len(objs) + i]]
        rekeyed == DictSet(DictRemove(pieces, old), new_key, DictGet(pieces, old))
        moved == DictGet(rekeyed, new_key)
    IN  [objs |-> [(objs \o created) EXCEPT
                      ![moved] = set_coords(@, new_key[1], new_key[2])],
         pieces |-> rekeyed]

\* The loop of lines 243-248 for one piece: a copy_board call per key, with
\* the (x, y) read from the piece before the loop.
RECURSIVE CopiesFrom(_, _, _, _, _, _)
CopiesFrom(objs, refs, old, keys, k, boards) ==
    IF k > Len(keys) THEN [objs |-> objs, boards |-> boards]
    ELSE LET c == copy_board_objects(objs, refs, keys[k], old)
         IN  CopiesFrom(c.objs, refs, old, keys, k + 1, Append(boards, c.pieces))

\* The loop of line 169 over the values of self.board.pieces.
RECURSIVE SuccessorObjectsFrom(_, _, _, _, _)
SuccessorObjectsFrom(objs, b, refs, i, boards) ==
    IF i > Len(refs) THEN [objs |-> objs, boards |-> boards]
    ELSE LET piece == objs[refs[i].piece]
             r == CopiesFrom(objs, refs, <<piece.coord_x, piece.coord_y>>,
                             new_keys(b, piece), 1, boards)
         IN  SuccessorObjectsFrom(r.objs, b, refs, i + 1, r.boards)

\* State.generate_successors on the objects: the Piece objects afterwards
\* and the pieces dicts of the successors' boards, in order.
generate_successors_objects(objs, b, refs) ==
    SuccessorObjectsFrom(objs, b, refs, 1, <<>>)

----------------------------------------------------------------------------
(* init_manhattan_distance *)

RECURSIVE GoalSum(_, _, _)
GoalSum(piece, goal_pieces, j) ==
    IF j > Len(goal_pieces) THEN 0
    ELSE (IF piece.uid = goal_pieces[j].piece.uid
          THEN Abs(goal_pieces[j].piece.coord_x - piece.coord_x)
               + Abs(goal_pieces[j].piece.coord_y - piece.coord_y)
          ELSE 0)
         + GoalSum(piece, goal_pieces, j + 1)

RECURSIVE ManhattanFrom(_, _, _)
ManhattanFrom(pieces, goal_pieces, i) ==
    IF i > Len(pieces) THEN 0
    ELSE GoalSum(pieces[i].piece, goal_pieces, 1)
         + ManhattanFrom(pieces, goal_pieces, i + 1)

init_manhattan_distance(b, gb) == ManhattanFrom(b.pieces, gb.pieces, 1)

----------------------------------------------------------------------------
(* heapq on a list of items <<f, state>>; p is the pool the items refer to *)

\* The comparison turned round: the heap would yield the largest f first.
ItemGt(a, b, p) ==
    IF a[1] # b[1] THEN a[1] > b[1]
    ELSE IF a[2] = b[2] THEN FALSE
    ELSE p[a[2]].f > p[b[2]].f

\* item1 < item2 for tuples (f, state): the f's decide unless they are
\* equal, then State.__lt__ compares the states' f fields.
ItemLt(a, b, p) ==
    IF a[1] # b[1] THEN a[1] < b[1]
    ELSE IF a[2] = b[2] THEN FALSE
    ELSE p[a[2]].f < p[b[2]].f

\* heapq._siftdown; positions are 0-based as in heapq.
RECURSIVE SiftDown(_, _, _, _, _)
SiftDown(heap, startpos, pos, newitem, p) ==
    IF pos > startpos
    THEN LET parentpos == (pos - 1) \div 2
             parent == heap[parentpos + 1]
         IN  IF ItemLt(newitem, parent, p)
             THEN SiftDown([heap EXCEPT ![pos + 1] = parent],
                           startpos, parentpos, newitem, p)
             ELSE [heap EXCEPT ![pos + 1] = newitem]
    ELSE [heap EXCEPT ![pos + 1] = newitem]

heappush(heap, item, p) ==
    SiftDown(Append(heap, item), 0, Len(heap), item, p)

\* heapq._siftup: moves the smaller child up until a leaf is reached, then
\* sifts newitem down from there.
RECURSIVE SiftUp(_, _, _, _, _)
SiftUp(heap, startpos, pos, newitem, p) ==
    LET endpos == Len(heap)
        childpos == 2 * pos + 1
        rightpos == childpos + 1
        c == IF rightpos < endpos
                /\ ~ItemLt(heap[childpos + 1], heap[rightpos + 1], p)
             THEN rightpos ELSE childpos
    IN  IF childpos < endpos
        THEN SiftUp([heap EXCEPT ![pos + 1] = heap[c + 1]], startpos, c, newitem, p)
        ELSE SiftDown([heap EXCEPT ![pos + 1] = newitem], startpos, pos, newitem, p)

\* A pop that takes the last item of the list, as list.pop() does.
heappop_lastelt(heap, p) ==
    <<heap[Len(heap)], SubSeq(heap, 1, Len(heap) - 1)>>

\* heappop: <<the item returned, the heap left>>
heappop(heap, p) ==
    LET lastelt == heap[Len(heap)]
        rest == SubSeq(heap, 1, Len(heap) - 1)
    IN  IF rest # <<>>
        THEN <<rest[1], SiftUp([rest EXCEPT ![1] = lastelt], 0, 0, lastelt, p)>>
        ELSE <<lastelt, rest>>

----------------------------------------------------------------------------
(* The puzzle files the model reads *)

\* The cells a piece covers: its footprint.
Footprint(piece) ==
    LET x == piece.coord_x
        y == piece.coord_y
    IN  IF piece.is_2_by_2
        THEN {<<x, y>>, <<x + 1, y>>, <<x, y + 1>>, <<x + 1, y + 1>>}
        ELSE IF piece.is_single THEN {<<x, y>>}
        ELSE IF piece.orientation = "h" THEN {<<x, y>>, <<x + 1, y>>}
        ELSE {<<x, y>>, <<x, y + 1>>}

InsideBoard(cells, height) ==
    \A c \in cells : 0 <= c[1] /\ c[1] < width /\ 0 <= c[2] /\ c[2] < height

\* A well-formed piece mapping: each key is its piece's position, every
\* footprint is inside the board, no two footprints share a cell.
WellFormed(height, pieces) ==
    /\ \A i \in 1..Len(pieces) :
          /\ pieces[i].key = <<pieces[i].piece.coord_x, pieces[i].piece.coord_y>>
          /\ InsideBoard(Footprint(pieces[i].piece), height)
    /\ \A i, j \in 1..Len(pieces) :
          i # j => Footprint(pieces[i].piece) \cap Footprint(pieces[j].piece) = {}

\* The initial layouts: 4 cells wide, 2 to 4 rows, every shape among them.
InitialLayouts ==
    {<<<<".", "2", "1", "1">>,
      <<".", "2", "1", "1">>,
      <<"2", "<", ">", "2">>>>,
     <<<<"^", "1", "1", ".">>,
      <<"v", "1", "1", ".">>,
      <<"2", "<", ">", "2">>>>,
     <<<<"2", ".", "<", ">">>,
      <<"<", ">", ".", "2">>>>,
     <<<<"^", "1", "1", "2">>,
      <<"v", "1", "1", ".">>,
      <<"2", ".", "<", ">">>>>,
     <<<<"1", "1", "2", ".">>,
      <<"1", "1", ".", "2">>>>,
     <<<<"^", "2", "^", ".">>,
      <<"v", ".", "v", "2">>>>,
     <<<<"^", "<", ">", ".">>,
      <<"v", "2", ".", "2">>>>,
     <<<<"<", ">", "^", "2">>,
      <<".", "2", "v", ".">>,
      <<"<", ">", "1", "1">>,
      <<".", ".", "1", "1">>>>}

\* How many pieces of the initial layout the goal layout may show elsewhere.
MaxMoved == 1

\* The pieces of a layout, as the loader reads them from its lines.
LayoutPieces(layout) == read_from_file(layout).pieces

\* pieces with the i-th piece put at (x, y)
Relocated(pieces, i, x, y) ==
    [pieces EXCEPT ![i] = [key |-> <<x, y>>, piece |-> set_coords(@.piece, x, y)]]

\* The well-formed piece mappings that differ from pieces in the positions
\* of at most n pieces.
RECURSIVE Relocations(_, _, _)
Relocations(height, pieces, n) ==
    IF n = 0 THEN {pieces}
    ELSE LET less == Relocations(height, pieces, n - 1)
         IN  less \cup
             {r \in {Relocated(q, i, x, y) :
                       q \in less, i \in 1..Len(pieces),
                       x \in 0..(width - 1), y \in 0..(height - 1)} :
                WellFormed(height, r)}

\* A file: the initial layout, a blank line, a goal layout of the same
\* pieces.
PuzzleFiles ==
    UNION {{layout \o <<<<>>>> \o update_grid(Len(layout), g) :
              g \in Relocations(Len(layout), LayoutPieces(layout), MaxMoved)} :
           layout \in InitialLayouts}

----------------------------------------------------------------------------
(* The program: __main__, output_solution, astar, dfs *)

Init ==
    /\ puzzle_file \in PuzzleFiles
    /\ loaded = FALSE
    /\ load_error = FALSE
    /\ board = Board(0, <<>>)
    /\ goal_board = Board(0, <<>>)
    /\ goal_board_dict = <<>>
    /\ algo = "none"
    /\ pc = "main"
    /\ pool = <<>>
    /\ heap_lst = <<>>
    /\ stack = <<>>
    /\ visited = {}
    /\ state = 0
    /\ output = <<>>
    /\ expanded = <<>>
    /\ piece_objs = <<>>
    /\ piece_refs = <<>>

\* __main__, line 461: board, goal_board = read_from_file(args.inputfile)
ReadFromFile ==
    /\ pc = "main"
    /\ LET L == read_from_file(puzzle_file)
       IN  IF L.error
           THEN /\ load_error' = TRUE
                /\ pc' = "done"
                /\ UNCHANGED <<board, goal_board, goal_board_dict>>
           ELSE /\ load_error' = FALSE
                /\ pc' = "loaded"
                /\ board' = Board(L.height_, L.pieces)
                /\ goal_board' = Board(L.height_, L.final_pieces)
                /\ goal_board_dict' = L.goal_board_dict
    /\ loaded' = TRUE
    /\ UNCHANGED <<puzzle_file, algo, pool, heap_lst, stack, visited, state,
                   output, expanded>>
    /\ LET L == read_from_file(puzzle_file)
       IN  piece_objs' = IF L.error THEN piece_objs
                         ELSE [i \in 1..Len(L.pieces) |-> L.pieces[i].piece]
    /\ UNCHANGED piece_refs

\* output_solution with algo = 'astar', lines 415-417, and astar's lines
\* 366-369: the root State and the heap that holds it.
OutputSolutionAstar ==
    /\ pc = "loaded"
    /\ LET man_dist == init_manhattan_distance(board, goal_board)
       IN  /\ pool' = <<State(board, man_dist, man_dist, 0, 0)>>
           /\ heap_lst' = heappush(<<>>, <<man_dist, 1>>, pool')
    /\ algo' = "astar"
    /\ visited' = {}
    /\ pc' = "search"
    /\ UNCHANGED <<puzzle_file, loaded, load_error, board, goal_board,
                   goal_board_dict, stack, state, output, expanded>>
    /\ piece_refs' = <<BoardRefs(board)>>
    /\ UNCHANGED piece_objs

\* output_solution with algo = 'dfs', lines 412-413, and dfs's lines 389-390.
OutputSolutionDfs ==
    /\ pc = "loaded"
    /\ pool' = <<State(board, 0, 0, 0, 0)>>
    /\ stack' = <<1>>
    /\ algo' = "dfs"
    /\ visited' = {}
    /\ pc' = "search"
    /\ UNCHANGED <<puzzle_file, loaded, load_error, board, goal_board,
                   goal_board_dict, heap_lst, state, output, expanded>>
    /\ piece_refs' = <<BoardRefs(board)>>
    /\ UNCHANGED piece_objs

\* A pop that never finds its board visited.
PopAlways(b, vis) == TRUE

\* "str(curr.board) not in visited" at a pop (lines 374 and 394)
PopUnvisited(b, vis) == BoardStr(b) \notin vis

\* The test at a push, inverted.
PushVisited(b, vis) == BoardStr(b) \in vis

\* "str(state.board) not in visited" at a push (lines 382 and 402)
PushUnvisited(b, vis) == BoardStr(b) \notin vis

\* The references of the n States appended to a pool of length len.
NewRefs(len, n) == [k \in 1..n |-> len + k]

\* A scoring that leaves the heuristic out: f = depth.
AstarScoredDepthOnly(successors, vis) ==
    [k \in 1..Len(successors) |->
       IF PushUnvisited(successors[k].board, vis)
       THEN [successors[k] EXCEPT !.f = successors[k].depth]
       ELSE successors[k]]

\* astar's lines 381-384 on the pool: every successor whose board is unvisited
\* gets f = depth + hfn.
AstarScored(successors, vis) ==
    [k \in 1..Len(successors) |->
       IF PushUnvisited(successors[k].board, vis)
       THEN [successors[k] EXCEPT !.f = successors[k].depth + successors[k].hfn]
       ELSE successors[k]]

\* astar's lines 381-384 on the heap: the unvisited successors pushed in order.
RECURSIVE AstarPushFrom(_, _, _, _, _)
AstarPushFrom(heap, p, refs, vis, k) ==
    IF k > Len(refs) THEN heap
    ELSE AstarPushFrom(
           IF PushUnvisited(p[refs[k]].board, vis)
           THEN heappush(heap, <<p[refs[k]].f, refs[k]>>, p)
           ELSE heap,
           p, refs, vis, k + 1)

\* One iteration of astar's loop that pops a State whose board was visited.
AstarDiscard ==
    /\ pc = "search" /\ algo = "astar" /\ heap_lst # <<>>
    /\ LET popped == heappop(heap_lst, pool)
           curr == popped[1][2]
       IN  /\ ~PopUnvisited(pool[curr].board, visited)
           /\ heap_lst' = popped[2]
    /\ UNCHANGED <<puzzle_file, loaded, load_error, board, goal_board,
                   goal_board_dict, algo, pc, pool, stack, visited, state,
                   output, expanded>>
    /\ UNCHANGED <<piece_objs, piece_refs>>

\* The iteration that pops the goal: return curr (line 378).
AstarReturn ==
    /\ pc = "search" /\ algo = "astar" /\ heap_lst # <<>>
    /\ LET popped == heappop(heap_lst, pool)
           curr == popped[1][2]
       IN  /\ PopUnvisited(pool[curr].board, visited)
           /\ BoardEq(pool[curr].board, goal_board)
           /\ visited' = visited \cup {BoardStr(pool[curr].board)}
           /\ heap_lst' = popped[2]
           /\ state' = curr
    /\ pc' = "returned"
    /\ UNCHANGED <<puzzle_file, loaded, load_error, board, goal_board,
                   goal_board_dict, algo, pool, stack, output, expanded>>
    /\ UNCHANGED <<piece_objs, piece_refs>>

\* The iteration that expands the popped State (lines 380-384).
AstarExpand ==
    /\ pc = "search" /\ algo = "astar" /\ heap_lst # <<>>
    /\ LET popped == heappop(heap_lst, pool)
           curr == popped[1][2]
           vis == visited \cup {BoardStr(pool[curr].board)}
           successors == generate_successors(pool[curr], curr, goal_board_dict)
           refs == NewRefs(Len(pool), Len(successors))
           p == pool \o AstarScored(successors, vis)
       IN  /\ PopUnvisited(pool[curr].board, visited)
           /\ ~BoardEq(pool[curr].board, goal_board)
           /\ visited' = vis
           /\ pool' = p
           /\ heap_lst' = AstarPushFrom(popped[2], p, refs, vis, 1)
           /\ expanded' = Append(expanded, BoardStr(pool[curr].board))
    /\ UNCHANGED <<puzzle_file, loaded, load_error, board, goal_board,
                   goal_board_dict, algo, pc, stack, state, output>>
    /\ LET curr == heappop(heap_lst, pool)[1][2]
           objects == generate_successors_objects(piece_objs, pool[curr].board,
                                                  piece_refs[curr])
       IN  /\ piece_objs' = objects.objs
           /\ piece_refs' = piece_refs \o objects.boards

\* The heap is empty: return None (line 385).
AstarExhausted ==
    /\ pc = "search" /\ algo = "astar" /\ heap_lst = <<>>
    /\ state' = 0
    /\ pc' = "returned"
    /\ UNCHANGED <<puzzle_file, loaded, load_error, board, goal_board,
                   goal_board_dict, algo, pool, heap_lst, stack, visited,
                   output, expanded>>
    /\ UNCHANGED <<piece_objs, piece_refs>>

\* dfs's lines 401-403: the unvisited successors appended to the stack.
RECURSIVE DfsPushFrom(_, _, _, _, _)
DfsPushFrom(stk, p, refs, vis, k) ==
    IF k > Len(refs) THEN stk
    ELSE DfsPushFrom(
           IF PushUnvisited(p[refs[k]].board, vis)
           THEN Append(stk, refs[k])
           ELSE stk,
           p, refs, vis, k + 1)

\* A discard that puts the popped State back under the stack.
DfsDiscardRequeue ==
    /\ pc = "search" /\ algo = "dfs" /\ stack # <<>>
    /\ LET curr == stack[Len(stack)]
       IN  /\ ~PopUnvisited(pool[curr].board, visited)
           /\ stack' = <<curr>> \o SubSeq(stack, 1, Len(stack) - 1)
    /\ UNCHANGED <<puzzle_file, loaded, load_error, board, goal_board,
                   goal_board_dict, algo, pc, pool, heap_lst, visited, state,
                   output, expanded>>
    /\ UNCHANGED <<piece_objs, piece_refs>>

\* One iteration of dfs's loop that pops a State whose board was visited.
DfsDiscard ==
    /\ pc = "search" /\ algo = "dfs" /\ stack # <<>>
    /\ LET curr == stack[Len(stack)]
       IN  /\ ~PopUnvisited(pool[curr].board, visited)
           /\ stack' = SubSeq(stack, 1, Len(stack) - 1)
    /\ UNCHANGED <<puzzle_file, loaded, load_error, board, goal_board,
                   goal_board_dict, algo, pc, pool, heap_lst, visited, state,
                   output, expanded>>
    /\ UNCHANGED <<piece_objs, piece_refs>>

DfsReturn ==
    /\ pc = "search" /\ algo = "dfs" /\ stack # <<>>
    /\ LET curr == stack[Len(stack)]
       IN  /\ PopUnvisited(pool[curr].board, visited)
           /\ BoardEq(pool[curr].board, goal_board)
           /\ visited' = visited \cup {BoardStr(pool[curr].board)}
           /\ stack' = SubSeq(stack, 1, Len(stack) - 1)
           /\ state' = curr
    /\ pc' = "returned"
    /\ UNCHANGED <<puzzle_file, loaded, load_error, board, goal_board,
                   goal_board_dict, algo, pool, heap_lst, output, expanded>>
    /\ UNCHANGED <<piece_objs, piece_refs>>

\* An expansion that marks visited every State it pushes.
DfsExpandMarksPushed ==
    /\ pc = "search" /\ algo = "dfs" /\ stack # <<>>
    /\ LET curr == stack[Len(stack)]
           vis == visited \cup {BoardStr(pool[curr].board)}
           successors == generate_successors(pool[curr], curr, goal_board_dict)
           refs == NewRefs(Len(pool), Len(successors))
           p == pool \o successors
       IN  /\ PopUnvisited(pool[curr].board, visited)
           /\ ~BoardEq(pool[curr].board, goal_board)
           /\ stack' = DfsPushFrom(SubSeq(stack, 1, Len(stack) - 1), p, refs, vis, 1)
           /\ visited' = vis \cup {BoardStr(p[stack'[k]].board) :
                                     k \in Len(stack)..Len(stack')}
           /\ pool' = p
           /\ expanded' = Append(expanded, BoardStr(pool[curr].board))
    /\ UNCHANGED <<puzzle_file, loaded, load_error, board, goal_board,
                   goal_board_dict, algo, pc, heap_lst, state, output>>
    /\ LET curr == stack[Len(stack)]
           objects == generate_successors_objects(piece_objs, pool[curr].board,
                                                  piece_refs[curr])
       IN  /\ piece_objs' = objects.objs
           /\ piece_refs' = piece_refs \o objects.boards

DfsExpand ==
    /\ pc = "search" /\ algo = "dfs" /\ stack # <<>>
    /\ LET curr == stack[Len(stack)]
           vis == visited \cup {BoardStr(pool[curr].board)}
           successors == generate_successors(pool[curr], curr, goal_board_dict)
           refs == NewRefs(Len(pool), Len(successors))
           p == pool \o successors
       IN  /\ PopUnvisited(pool[curr].board, visited)
           /\ ~BoardEq(pool[curr].board, goal_board)
           /\ visited' = vis
           /\ pool' = p
           /\ stack' = DfsPushFrom(SubSeq(stack, 1, Len(stack) - 1), p, refs, vis, 1)
           /\ expanded' = Append(expanded, BoardStr(pool[curr].board))
    /\ UNCHANGED <<puzzle_file, loaded, load_error, board, goal_board,
                   goal_board_dict, algo, pc, heap_lst, state, output>>
    /\ LET curr == stack[Len(stack)]
           objects == generate_successors_objects(piece_objs, pool[curr].board,
                                                  piece_refs[curr])
       IN  /\ piece_objs' = objects.objs
           /\ piece_refs' = piece_refs \o objects.boards

DfsExhausted ==
    /\ pc = "search" /\ algo = "dfs" /\ stack = <<>>
    /\ state' = 0
    /\ pc' = "returned"
    /\ UNCHANGED <<puzzle_file, loaded, load_error, board, goal_board,
                   goal_board_dict, algo, pool, heap_lst, stack, visited,
                   output, expanded>>
    /\ UNCHANGED <<piece_objs, piece_refs>>

\* The States from s to the root along parent (lines 422-424).
RECURSIVE ParentChain(_, _)
ParentChain(p, s) ==
    IF s = 0 THEN <<>> ELSE <<s>> \o ParentChain(p, p[s].parent)

\* states[::-1]
Reversed(seq) == [i \in 1..Len(seq) |-> seq[Len(seq) + 1 - i]]

\* The root-to-goal States output_solution displays.
SolutionStates(p, s) == Reversed(ParentChain(p, s))

\* Board.display followed by print(""): the rows, then an empty line
Displayed(b) == b.grid \o <<<<>>>>

RECURSIVE DisplayedFrom(_, _, _)
DisplayedFrom(p, states, i) ==
    IF i > Len(states) THEN <<>>
    ELSE Displayed(p[states[i]].board) \o DisplayedFrom(p, states, i + 1)

NoSolution == <<<<"No solution">>>>

\* output_solution, lines 420-432: the boards of the path, or "No solution".
OutputPath ==
    /\ pc = "returned" /\ state # 0
    /\ output' = DisplayedFrom(pool, SolutionStates(pool, state), 1)
    /\ pc' = "done"
    /\ UNCHANGED <<puzzle_file, loaded, load_error, board, goal_board,
                   goal_board_dict, algo, pool, heap_lst, stack, visited,
                   state, expanded>>
    /\ UNCHANGED <<piece_objs, piece_refs>>

OutputNoSolution ==
    /\ pc = "returned" /\ state = 0
    /\ output' = NoSolution
    /\ pc' = "done"
    /\ UNCHANGED <<puzzle_file, loaded, load_error, board, goal_board,
                   goal_board_dict, algo, pool, heap_lst, stack, visited,
                   state, expanded>>
    /\ UNCHANGED <<piece_objs, piece_refs>>

Next ==
    \/ ReadFromFile
    \/ OutputSolutionAstar
    \/ OutputSolutionDfs
    \/ AstarDiscard
    \/ AstarReturn
    \/ AstarExpand
    \/ AstarExhausted
    \/ DfsDiscard
    \/ DfsReturn
    \/ DfsExpand
    \/ DfsExhausted
    \/ OutputPath
    \/ OutputNoSolution

Spec == Init /\ [][Next]_vars

\* The program is sequential and runs to completion in one call (no
\* suspension points): as long as it has not ended it takes its next step.
\* This is weak fairness of Next, with "Next is enabled" written as what it
\* amounts to here, pc # "done".
FairSpec == Init /\ [][Next]_vars /\ ([]<>(pc = "done") \/ []<><<Next>>_vars)

----------------------------------------------------------------------------
(* Board.__init__ on any piece mapping, well-formed or not *)

\* The height of the boards built from the piece mappings below.
GridHeight == 2

\* A piece of every shape at every position where its footprint is inside
\* a board of the given height.
Placements(height) ==
    {q \in {Piece(shape[1], shape[2], x, y, shape[3], 0) :
              shape \in {<<TRUE, FALSE, "None">>, <<FALSE, TRUE, "None">>,
                         <<FALSE, FALSE, "h">>, <<FALSE, FALSE, "v">>},
              x \in 0..(width - 1), y \in 0..(height - 1)} :
       InsideBoard(Footprint(q), height)}

\* The dicts of two pieces keyed by their positions, whether their
\* footprints overlap or not; the uids are 1 and 2.
PieceMappings(height) ==
    {<<[key |-> <<q1.coord_x, q1.coord_y>>, piece |-> [q1 EXCEPT !.uid = 1]],
       [key |-> <<q2.coord_x, q2.coord_y>>, piece |-> [q2 EXCEPT !.uid = 2]]>> :
       <<q1, q2>> \in {qq \in Placements(height) \X Placements(height) :
                         <<qq[1].coord_x, qq[1].coord_y>>
                         # <<qq[2].coord_x, qq[2].coord_y>>}}

\* Board.__init__, lines 68-76: the fields are set, the grid is the empty
\* list.
BoardInit ==
    /\ board \in {[height |-> GridHeight, pieces |-> pieces, grid |-> <<>>] :
                    pieces \in PieceMappings(GridHeight)}
    /\ pc = "board_init"
    /\ puzzle_file = <<>>
    /\ loaded = FALSE
    /\ load_error = FALSE
    /\ goal_board = Board(0, <<>>)
    /\ goal_board_dict = <<>>
    /\ algo = "none"
    /\ pool = <<>>
    /\ heap_lst = <<>>
    /\ stack = <<>>
    /\ visited = {}
    /\ state = 0
    /\ output = <<>>
    /\ expanded = <<>>
    /\ piece_objs = <<>>
    /\ piece_refs = <<>>

\* Board.__init__, line 77: self.update_grid()
BoardUpdateGrid ==
    /\ pc = "board_init"
    /\ board' = [board EXCEPT !.grid = update_grid(board.height, board.pieces)]
    /\ pc' = "board_done"
    /\ UNCHANGED <<puzzle_file, loaded, load_error, goal_board, goal_board_dict,
                   algo, pool, heap_lst, stack, visited, state, output,
                   expanded, piece_objs, piece_refs>>

BoardNext == BoardUpdateGrid

BoardSpec == BoardInit /\ [][BoardNext]_vars

----------------------------------------------------------------------------
(* What the claims speak of, stated from the shapes and not from the code *)

\* The pieces of a board, as a set
PieceSet(b) == {b.pieces[i].piece : i \in 1..Len(b.pieces)}

Directions == {<<-1, 0>>, <<1, 0>>, <<0, -1>>, <<0, 1>>}

Shifted(piece, d) == set_coords(piece, piece.coord_x + d[1], piece.coord_y + d[2])

Occupied(ps) == UNION {Footprint(q) : q \in ps}

\* The symbol a piece shows in the cell c of its footprint
CellMark(piece, c) ==
    IF piece.is_2_by_2 THEN "1"
    ELSE IF piece.is_single THEN "2"
    ELSE IF piece.orientation = "h"
    THEN (IF c = <<piece.coord_x, piece.coord_y>> THEN "<" ELSE ">")
    ELSE (IF c = <<piece.coord_x, piece.coord_y>> THEN "^" ELSE "v")

\* The footprint stamp of a set of pieces: every covered cell shows its
\* piece's symbol, every other cell is '.'.
FootprintGrid(height, ps) ==
    [y \in 1..height |->
       [x \in 1..width |->
          IF \E q \in ps : <<x - 1, y - 1>> \in Footprint(q)
          THEN CellMark(CHOOSE q \in ps : <<x - 1, y - 1>> \in Footprint(q),
                        <<x - 1, y - 1>>)
          ELSE "."]]

\* Sliding piece q of ps by d is legal: the shifted footprint is inside the
\* board and meets no other piece.
LegalShift(height, ps, q, d) ==
    /\ InsideBoard(Footprint(Shifted(q, d)), height)
    /\ Footprint(Shifted(q, d)) \cap Occupied(ps \ {q}) = {}

\* b2 is b1 after exactly one legal single-cell slide of one piece.
OneSlide(b1, b2) ==
    /\ b2.height = b1.height
    /\ \E q \in PieceSet(b1), d \in Directions :
          /\ LegalShift(b1.height, PieceSet(b1), q, d)
          /\ PieceSet(b2) = (PieceSet(b1) \ {q}) \cup {Shifted(q, d)}
    /\ Len(b2.pieces) = Len(b1.pieces)
    /\ b2.grid = FootprintGrid(b2.height, PieceSet(b2))

\* Layouts: sets of pieces without identity.
Anonymous(ps) == {[q EXCEPT !.uid = 0] : q \in ps}

SlidesOf(height, layout) ==
    {(layout \ {q}) \cup {Shifted(q, d)} :
       <<q, d>> \in {qd \in layout \X Directions :
                       LegalShift(height, layout, qd[1], qd[2])}}

\* The layouts reachable from those of seen by legal slides; fresh are the
\* ones of seen whose slides are still to be added.
RECURSIVE ReachFrom(_, _, _)
ReachFrom(height, seen, fresh) ==
    IF fresh = {} THEN seen
    ELSE LET next == (UNION {SlidesOf(height, l) : l \in fresh}) \ seen
         IN  ReachFrom(height, seen \cup next, next)

ReachableLayouts(b) ==
    ReachFrom(b.height, {Anonymous(PieceSet(b))}, {Anonymous(PieceSet(b))})

\* Some layout reachable from the initial board shows the goal grid.
GoalReachable ==
    \E l \in ReachableLayouts(board) :
       FootprintGrid(board.height, l) = goal_board.grid

Returned == pc \in {"returned", "done"}

\* The States the last step created: the root, or the successors of the
\* State expanded last. A State's board never changes once it is in pool,
\* so what holds of every State when it is newest holds of every State.
Newest ==
    {n \in 1..Len(pool) : pool[n].parent = pool[Len(pool)].parent}

----------------------------------------------------------------------------
(* C1 *)

\* C1: whenever astar or dfs returns a node, the node's grid equals the goal
\* board's grid, and the reversed parent chain starts at the initial board
\* and each board of it is the one before after exactly one legal
\* single-cell slide of one piece.
C1_ReturnedPathIsLegal ==
    (Returned /\ state # 0) =>
        LET path == SolutionStates(pool, state)
        IN  /\ pool[state].board.grid = goal_board.grid
            /\ path[Len(path)] = state
            /\ pool[path[1]].board = board
            /\ pool[path[1]].parent = 0
            /\ \A i \in 1..(Len(path) - 1) :
                  OneSlide(pool[path[i]].board, pool[path[i + 1]].board)

C1_Witness ==
    /\ pc = "done" /\ state # 0 /\ algo = "dfs"
    /\ pool[state].depth >= 3
    /\ Len(output) = (pool[state].depth + 1) * (board.height + 1)

----------------------------------------------------------------------------
(* C2 *)

\* C2: astar and dfs return None, and output_solution prints "No solution",
\* exactly when no layout whose grid equals the goal grid can be reached
\* from the initial layout by legal moves.
C2_NoSolutionIffUnreachable ==
    /\ Returned => ((state = 0) <=> ~GoalReachable)
    /\ pc = "done" => ((output = NoSolution) <=> ~GoalReachable)

C2_Witness ==
    /\ pc = "done" /\ algo = "astar" /\ state = 0
    /\ output = NoSolution
    /\ Len(expanded) >= 5
    /\ ~GoalReachable

----------------------------------------------------------------------------
(* C3 *)

\* C3: for every well-formed puzzle both searches terminate: the loop
\* returns a goal node or leaves with an empty frontier, and the run ends.
C3_Terminates == <>(pc = "done")

C3_Witness ==
    /\ pc = "done" /\ algo = "astar" /\ state = 0 /\ heap_lst = <<>>
    /\ Len(expanded) >= 10

----------------------------------------------------------------------------
(* C4 *)

\* The board is 3 rows tall, q is a 1x1 piece whose goal slot is two slides
\* through empty cells away, and the goal grid shows every other piece on
\* the cells it has in the initial layout.
TwoAway(q, d1, d2) ==
    LET mid == Shifted(q, d1)
        dest == Shifted(mid, d2)
        others == PieceSet(board) \ {q}
    IN  /\ board.height = 3
        /\ q.is_single
        /\ <<dest.coord_x, dest.coord_y>> # <<q.coord_x, q.coord_y>>
        /\ InsideBoard(Footprint(mid) \cup Footprint(dest), board.height)
        /\ (Footprint(mid) \cup Footprint(dest)) \cap Occupied(others) = {}
        /\ goal_board.grid = FootprintGrid(board.height, others \cup {dest})

\* The goal map pairs q with the goal piece on its slot and every other
\* piece with the goal piece on its own cells.
PairedWithSlot(q, d1, d2) ==
    LET dest == Shifted(Shifted(q, d1), d2)
    IN  \A o \in PieceSet(board) :
           /\ o.uid \in DOMAIN goal_board_dict
           /\ <<goal_board_dict[o.uid].coord_x, goal_board_dict[o.uid].coord_y>>
              = IF o = q THEN <<dest.coord_x, dest.coord_y>>
                ELSE <<o.coord_x, o.coord_y>>

AstarReturnedDepth2 == state # 0 /\ pool[state].depth = 2

\* C4, as claimed: on a 4-wide, 3-tall puzzle in which one 1x1 piece is two
\* empty cells away from its goal slot and every other piece keeps its
\* cells, astar returns a node at depth exactly 2.
C4_AstarTwoMoves ==
    (Returned /\ algo = "astar"
     /\ \E q \in PieceSet(board), d1, d2 \in Directions : TwoAway(q, d1, d2))
    => AstarReturnedDepth2

\* C4, amended: the same, when the loader's goal map pairs the moving piece
\* with its goal slot and every other piece with its own cells.
C4_AstarTwoMovesWhenPaired ==
    (Returned /\ algo = "astar"
     /\ \E q \in PieceSet(board), d1, d2 \in Directions :
           TwoAway(q, d1, d2) /\ PairedWithSlot(q, d1, d2))
    => AstarReturnedDepth2

\* A case of the amended claim where another 1x1 piece is on the board.
C4_Witness ==
    /\ pc = "done" /\ algo = "astar" /\ AstarReturnedDepth2
    /\ Cardinality({o \in PieceSet(board) : o.is_single}) >= 2
    /\ \E q \in PieceSet(board), d1, d2 \in Directions :
          TwoAway(q, d1, d2) /\ PairedWithSlot(q, d1, d2)

----------------------------------------------------------------------------
(* C5 *)

\* C5: in one run of astar or dfs no board grid string is expanded twice:
\* the strings of the generate_successors calls are pairwise different, and
\* each was marked visited when it was expanded.
C5_ExpandedOnce ==
    /\ \A i, j \in 1..Len(expanded) : i # j => expanded[i] # expanded[j]
    /\ \A i \in 1..Len(expanded) : expanded[i] \in visited

\* A State whose board was already expanded waits on the frontier.
C5_Witness ==
    /\ pc = "search" /\ algo = "astar"
    /\ Len(expanded) >= 3
    /\ \E k \in 1..Len(heap_lst) :
          \E i \in 1..Len(expanded) :
             BoardStr(pool[heap_lst[k][2]].board) = expanded[i]

----------------------------------------------------------------------------
(* C6 *)

NoOverlap(ps) ==
    \A q1, q2 \in ps : q1 # q2 => Footprint(q1) \cap Footprint(q2) = {}

GridIsStamp(b) ==
    /\ b.grid = FootprintGrid(b.height, PieceSet(b))
    /\ InsideBoard(Occupied(PieceSet(b)), b.height)
    /\ NoOverlap(PieceSet(b))

\* C6: in the initial board and in every board a search creates the grid is
\* exactly the footprint stamp of the pieces and no two footprints share a
\* cell.
C6_GridIsFootprintStamp ==
    /\ loaded => GridIsStamp(board)
    /\ \A n \in 1..Len(pool) : GridIsStamp(pool[n].board)

C6_Witness ==
    /\ \E n \in 1..Len(pool) :
          /\ pool[n].depth >= 3
          /\ \E q \in PieceSet(pool[n].board) : q.is_2_by_2
          /\ pool[n].board.grid # board.grid
    /\ Len(pool) >= 20

----------------------------------------------------------------------------
(* C7 *)

\* What copy_board(new_key, old) on b is claimed to return.
CopyFrame(b, new_key, old) ==
    LET r == copy_board(b, new_key, old)
        was == DictGet(b.pieces, old)
    IN  /\ Len(r.pieces) = Len(b.pieces)
        /\ r.height = b.height
        /\ Cardinality({j \in 1..Len(r.pieces) : r.pieces[j].piece.uid = was.uid}) = 1
        /\ \E j \in 1..Len(r.pieces) :
              /\ r.pieces[j].key = new_key
              /\ r.pieces[j].piece =
                    Piece(was.is_2_by_2, was.is_single, new_key[1], new_key[2],
                          was.orientation, was.uid)
        /\ \A i \in 1..Len(b.pieces) :
              b.pieces[i].key # old =>
                 \E j \in 1..Len(r.pieces) : r.pieces[j] = b.pieces[i]

\* C7: for every board a search creates (checked when it is created) and
\* every call of copy_board that generate_successors makes on it, the piece formerly at old is at new_key
\* with its identity and shape, every other piece keeps its position,
\* identity and shape, and the number of pieces is unchanged.
C7_CopyBoardFrame ==
    \A n \in Newest :
       \A i \in 1..Len(pool[n].board.pieces) :
          LET keys == new_keys(pool[n].board, pool[n].board.pieces[i].piece)
          IN  \A k \in 1..Len(keys) :
                 CopyFrame(pool[n].board, keys[k], pool[n].board.pieces[i].key)

\* A board of six pieces on which the 2x2 block can slide.
C7_Witness ==
    \E n \in 1..Len(pool) :
       /\ Len(pool[n].board.pieces) >= 6
       /\ pool[n].depth >= 2
       /\ \E i \in 1..Len(pool[n].board.pieces) :
             /\ pool[n].board.pieces[i].piece.is_2_by_2
             /\ new_keys(pool[n].board, pool[n].board.pieces[i].piece) # <<>>

----------------------------------------------------------------------------
(* C8 *)

\* The goal layout's piece of the same identity
GoalPieceOf(q) ==
    CHOOSE g \in PieceSet(goal_board) : g.uid = q.uid

GoalDistance(q) ==
    Abs(q.coord_x - GoalPieceOf(q).coord_x) + Abs(q.coord_y - GoalPieceOf(q).coord_y)

RECURSIVE GoalDistanceSum(_)
GoalDistanceSum(ps) ==
    IF ps = {} THEN 0
    ELSE LET q == CHOOSE q \in ps : TRUE
         IN  GoalDistance(q) + GoalDistanceSum(ps \ {q})

\* The heuristic from scratch: the sum over the pieces of the Manhattan
\* distance to the same-identity piece of the goal layout.
Heuristic(b) == GoalDistanceSum(PieceSet(b))

\* C8: in astar the heuristic stored in every State created, the root and
\* every successor, equals the heuristic recomputed from its board.
C8_StoredHeuristicIsRecomputed ==
    algo = "astar" =>
        \A n \in 1..Len(pool) : pool[n].hfn = Heuristic(pool[n].board)

C8_Witness ==
    /\ algo = "astar"
    /\ \E n \in 1..Len(pool) :
          /\ pool[n].depth >= 3
          /\ pool[n].hfn >= 3
          /\ pool[n].hfn > pool[pool[n].parent].hfn

----------------------------------------------------------------------------
(* C9 *)

\* C9: every State created, by root construction or by generate_successors,
\* under either search, has a heuristic field >= 0.
C9_HeuristicNonNegative ==
    \A n \in 1..Len(pool) : pool[n].hfn >= 0

----------------------------------------------------------------------------
(* C10 *)

\* The positions one orthogonal step away at which the piece's whole
\* footprint is inside the board and every footprint cell the piece does
\* not occupy already is empty.
LegalDestinations(b, q) ==
    {<<Shifted(q, d).coord_x, Shifted(q, d).coord_y>> :
       d \in {e \in Directions :
                /\ InsideBoard(Footprint(Shifted(q, e)), b.height)
                /\ \A c \in Footprint(Shifted(q, e)) \ Footprint(q) :
                      b.grid[c[2] + 1][c[1] + 1] = char_empty}}

\* C10: for every board a search creates (checked when it is created) and
\* every piece on it, the destinations generate_successors collects are exactly the legal ones,
\* each once.
C10_DestinationsAreTheLegalSlides ==
    \A n \in Newest :
       \A i \in 1..Len(pool[n].board.pieces) :
          LET q == pool[n].board.pieces[i].piece
              keys == new_keys(pool[n].board, q)
          IN  /\ {keys[k] : k \in 1..Len(keys)} = LegalDestinations(pool[n].board, q)
              /\ Len(keys) = Cardinality(LegalDestinations(pool[n].board, q))

\* A 2x2 block with exactly one of the two cells of a leading edge empty,
\* and a horizontal piece that can slide up or down.
C10_Witness ==
    /\ \E n \in 1..Len(pool) :
          \E q \in PieceSet(pool[n].board), d \in Directions :
             /\ q.is_2_by_2
             /\ InsideBoard(Footprint(Shifted(q, d)), pool[n].board.height)
             /\ Cardinality({c \in Footprint(Shifted(q, d)) \ Footprint(q) :
                               pool[n].board.grid[c[2] + 1][c[1] + 1] = char_empty}) = 1
    /\ \E n \in 1..Len(pool) :
          \E q \in PieceSet(pool[n].board) :
             /\ q.orientation = "h"
             /\ \E key \in LegalDestinations(pool[n].board, q) : key[1] = q.coord_x

----------------------------------------------------------------------------
(* C11 *)

\* The least number of legal slides after which a layout reachable from the
\* layouts of fresh shows the goal grid, counted from n; -1 when there is
\* none. Layouts are searched breadth-first, without the program's code.
RECURSIVE MovesFrom(_, _, _, _)
MovesFrom(height, seen, fresh, n) ==
    IF \E l \in fresh : FootprintGrid(height, l) = goal_board.grid THEN n
    ELSE IF fresh = {} THEN -1
    ELSE LET next == (UNION {SlidesOf(height, l) : l \in fresh}) \ seen
         IN  MovesFrom(height, seen \cup next, next, n + 1)

ShortestMoves ==
    MovesFrom(board.height, {Anonymous(PieceSet(board))},
              {Anonymous(PieceSet(board))}, 0)

SameShape(q, g) ==
    /\ q.is_2_by_2 = g.is_2_by_2
    /\ q.is_single = g.is_single
    /\ q.orientation = g.orientation

\* The goal map sends a piece away from its cells although the goal layout
\* shows a piece of its shape on them, and the root's heuristic, the sum of
\* the paired distances, exceeds the number of moves that are needed.
MisPaired ==
    /\ \E q \in PieceSet(board) :
          /\ \E o \in PieceSet(board) : o # q /\ SameShape(o, q)
          /\ <<goal_board_dict[q.uid].coord_x, goal_board_dict[q.uid].coord_y>>
             # <<q.coord_x, q.coord_y>>
          /\ \E g \in PieceSet(goal_board) :
                /\ SameShape(q, g)
                /\ <<g.coord_x, g.coord_y>> = <<q.coord_x, q.coord_y>>
    /\ init_manhattan_distance(board, goal_board) > ShortestMoves

\* Four 1x1 pieces; the goal moves the one at (0, 2) up to (0, 0).
MisPairedPuzzle ==
    <<<<".", "2", "1", "1">>,
      <<".", "2", "1", "1">>,
      <<"2", "<", ">", "2">>,
      <<>>,
      <<"2", "2", "1", "1">>,
      <<".", "2", "1", "1">>,
      <<".", "<", ">", "2">>>>

\* C11: there is a well-formed puzzle with pieces of the same shape, the
\* file MisPairedPuzzle, on which the greedy nearest-first assignment
\* mis-pairs pieces and astar returns a path with more moves than the
\* shortest sequence of legal moves to a board showing the goal grid.
C11_GreedyMisPairingLongerPath ==
    (Returned /\ algo = "astar" /\ puzzle_file = MisPairedPuzzle) =>
        /\ WellFormed(board.height, board.pieces)
        /\ MisPaired
        /\ state # 0
        /\ ShortestMoves >= 0
        /\ pool[state].depth > ShortestMoves

C11_Witness ==
    /\ pc = "done" /\ algo = "astar" /\ puzzle_file = MisPairedPuzzle
    /\ MisPaired
    /\ ShortestMoves = 2
    /\ state # 0 /\ pool[state].depth = 4
    /\ Len(output) = 5 * (board.height + 1)

----------------------------------------------------------------------------
(* C12 *)

\* The States on astar's frontier
Frontier == {heap_lst[k][2] : k \in 1..Len(heap_lst)}

\* Every frontier State has f = depth + hfn and is in the heap under that f,
\* once; the root has depth 0.
KeyedByF ==
    algo = "astar" =>
        /\ \A k \in 1..Len(heap_lst) :
              /\ heap_lst[k][2] \in 1..Len(pool)
              /\ heap_lst[k][1] = pool[heap_lst[k][2]].f
              /\ pool[heap_lst[k][2]].f
                 = pool[heap_lst[k][2]].depth + pool[heap_lst[k][2]].hfn
        /\ Cardinality(Frontier) = Len(heap_lst)
        /\ pool # <<>> =>
              pool[1].depth = 0 /\ pool[1].parent = 0 /\ pool[1].f = pool[1].hfn

\* The heap positions whose item the step removes
PoppedPositions ==
    {k \in 1..Len(heap_lst) :
       \A j \in 1..Len(heap_lst') : heap_lst'[j][2] # heap_lst[k][2]}

\* A step of astar's loop on a nonempty heap removes exactly one frontier
\* State, one whose f is minimal on the frontier, and what it adds are
\* States created by the step.
PopsMinimal ==
    (algo = "astar" /\ pc = "search" /\ heap_lst # <<>>) =>
        /\ Cardinality(PoppedPositions) = 1
        /\ \A k \in PoppedPositions :
              \A j \in 1..Len(heap_lst) : heap_lst[k][1] <= heap_lst[j][1]
        /\ \A j \in 1..Len(heap_lst') :
              heap_lst'[j][2] \in Frontier \/ heap_lst'[j][2] > Len(pool)

\* C12: in astar every state on the frontier has f = depth + heuristic (the
\* root included, with depth 0) and is keyed in the heap by that f, and each
\* pop removes a frontier state whose f is minimal among the states on the
\* frontier.
C12_FrontierKeyedByFPopsMinimal == [][KeyedByF' /\ PopsMinimal]_vars

\* A pop is about to be made from a frontier of at least four States under
\* different f values, the least of them not the newest.
C12_Witness ==
    /\ algo = "astar" /\ pc = "search"
    /\ Len(expanded) >= 3
    /\ Len(heap_lst) >= 4
    /\ Cardinality({heap_lst[k][1] : k \in 1..Len(heap_lst)}) >= 2
    /\ \E k \in 1..Len(heap_lst) : heap_lst[1][2] < heap_lst[k][2]
    /\ \E k \in 1..Len(heap_lst) : pool[heap_lst[k][2]].depth >= 3

----------------------------------------------------------------------------
(* C13 *)

\* The States on the frontier of the search that runs: astar's heap or
\* dfs's stack
FrontierRefs ==
    IF algo = "astar" THEN Frontier ELSE {stack[k] : k \in 1..Len(stack)}

\* The States a step takes off the frontier, and the ones it creates
PoppedRefs == FrontierRefs \ FrontierRefs'

CreatedRefs == (Len(pool) + 1)..Len(pool')

\* What one step does to visited and to the frontier.
VisitedOnPopOnly ==
    /\ (pc # "search" \/ FrontierRefs = {}) => visited' = visited
    /\ (pc = "search" /\ FrontierRefs # {}) =>
          /\ Cardinality(PoppedRefs) = 1
          /\ \A c \in PoppedRefs :
                /\ visited' = visited \cup {BoardStr(pool[c].board)}
                /\ BoardStr(pool[c].board) \in visited =>
                      /\ pool' = pool
                      /\ FrontierRefs' = FrontierRefs \ {c}
                      /\ pc' = "search"
                      /\ state' = state
                      /\ expanded' = expanded
          /\ \A n \in CreatedRefs :
                n \in FrontierRefs' <=> BoardStr(pool'[n].board) \notin visited'
          /\ FrontierRefs' \subseteq (FrontierRefs \ PoppedRefs) \cup CreatedRefs

\* C13: in astar and in dfs a grid string enters visited only when a State
\* with that grid is popped, never when one is pushed; a successor is pushed
\* if and only if its grid string is not in visited at push time; a popped
\* State whose grid is visited already is discarded.
C13_VisitedOnPopOnly == [][VisitedOnPopOnly]_vars

\* dfs's stack holds two States with the same grid, and a State whose grid
\* has been visited since it was pushed.
C13_Witness ==
    /\ algo = "dfs" /\ pc = "search"
    /\ \E i, j \in 1..Len(stack) :
          /\ i # j
          /\ BoardStr(pool[stack[i]].board) = BoardStr(pool[stack[j]].board)
    /\ \E i \in 1..Len(stack) : BoardStr(pool[stack[i]].board) \in visited
    /\ Len(expanded) >= 3

----------------------------------------------------------------------------
(* C14 *)

\* The number of parent links from State n to a State without parent; the
\* links followed are counted down from fuel, -1 when they run out (a cycle).
RECURSIVE ParentLinks(_, _, _)
ParentLinks(p, n, fuel) ==
    IF p[n].parent = 0 THEN 0
    ELSE IF fuel = 0 THEN -1
    ELSE LET up == ParentLinks(p, p[n].parent, fuel - 1)
         IN  IF up = -1 THEN -1 ELSE up + 1

\* C14: every State generate_successors creates has its parent's depth
\* plus 1, the root has depth 0 and no parent; so every State's depth is
\* the number of parent links from it to the root, and the parent relation
\* has no cycle.
C14_DepthIsParentLinks ==
    \A n \in 1..Len(pool) :
       /\ pool[n].parent \in 0..Len(pool)
       /\ (n = 1) <=> (pool[n].parent = 0)
       /\ pool[n].parent = 0 => pool[n].depth = 0
       /\ pool[n].parent # 0 => pool[n].depth = pool[pool[n].parent].depth + 1
       /\ ParentLinks(pool, n, Len(pool)) = pool[n].depth

\* A State at least five links below the root, in a pool of thirty or more.
C14_Witness ==
    /\ \E n \in 1..Len(pool) :
          /\ pool[n].depth >= 5
          /\ ParentLinks(pool, n, Len(pool)) = pool[n].depth
          /\ pool[pool[pool[n].parent].parent].depth = pool[n].depth - 2
    /\ Len(pool) >= 30

----------------------------------------------------------------------------
(* C15 *)

\* The pieces dict with the objects' present contents in place of the
\* references
Deref(objs, refs) ==
    [i \in 1..Len(refs) |-> [key |-> refs[i].key, piece |-> objs[refs[i].piece]]]

\* The Piece objects a pieces dict holds
RefSet(refs) == {refs[i].piece : i \in 1..Len(refs)}

\* What a step leaves alone: every State there was (board with pieces and
\* grid, hfn, f, depth, parent), every Piece object there was, every pieces
\* dict there was; and each State it creates has a board of Piece objects of
\* its own, that read as the board the State was given.
NoMutation ==
    /\ Len(pool') >= Len(pool)
    /\ \A n \in 1..Len(pool) : pool'[n] = pool[n]
    /\ Len(piece_objs') >= Len(piece_objs)
    /\ \A o \in 1..Len(piece_objs) : piece_objs'[o] = piece_objs[o]
    /\ Len(piece_refs') = Len(pool')
    /\ \A n \in 1..Len(piece_refs) : piece_refs'[n] = piece_refs[n]
    /\ \A n \in CreatedRefs :
          /\ Deref(piece_objs', piece_refs'[n]) = pool'[n].board.pieces
          /\ pool'[n].parent # 0 =>
                /\ RefSet(piece_refs'[n]) \cap RefSet(piece_refs'[pool'[n].parent]) = {}
                /\ Deref(piece_objs', piece_refs'[pool'[n].parent])
                   = pool[pool'[n].parent].board.pieces

\* C15: generate_successors does not mutate the State it expands: after the
\* call that State's board (pieces mapping, every piece's position, grid),
\* heuristic, f, depth and parent are what they were, and no successor's
\* board holds a Piece object of the expanded board.
C15_GenerateSuccessorsNoMutation == [][NoMutation]_vars

\* A State below the root was expanded into four or more successors, two
\* of them moves of the same piece, and its pieces read as they did.
C15_Witness ==
    \E n \in 2..Len(pool) :
       /\ Cardinality({m \in 1..Len(pool) : pool[m].parent = n}) >= 4
       /\ \E m1, m2 \in 1..Len(pool) :
             /\ m1 # m2 /\ pool[m1].parent = n /\ pool[m2].parent = n
             /\ \E i \in 1..Len(pool[n].board.pieces) :
                   /\ pool[n].board.pieces[i].key \notin DictKeys(pool[m1].board.pieces)
                   /\ pool[n].board.pieces[i].key \notin DictKeys(pool[m2].board.pieces)
       /\ Deref(piece_objs, piece_refs[n]) = pool[n].board.pieces
       /\ Len(piece_objs) >= 100

----------------------------------------------------------------------------
(* C16 *)

\* The index pair <<yy, xx>> names a cell of the board; an index below 0
\* would wrap to the other side, one beyond the end would raise.
IndexInside(b, yx) ==
    0 <= yx[1] /\ yx[1] < b.height /\ 0 <= yx[2] /\ yx[2] < width

FootprintsAndReadsInside(b) ==
    /\ Len(b.grid) = b.height
    /\ \A q \in PieceSet(b) :
          /\ InsideBoard(Footprint(q), b.height)
          /\ \A yx \in grid_reads(b, q) :
                /\ IndexInside(b, yx)
                /\ GridGet(b.grid, yx[1], yx[2]) # IndexError

\* C16: on every board of a search (checked when it is created) every
\* piece's whole footprint lies within [0, width) x [0, height), and
\* generate_successors, which tests the boundary before it reads the grid,
\* reads no grid cell outside the board.
C16_FootprintsAndReadsInBounds ==
    \A n \in Newest : FootprintsAndReadsInside(pool[n].board)

\* One board with a piece of each shape against an edge: the boundary test
\* towards the edge fails, and the piece's other tests read the grid.
C16_Witness ==
    \E n \in 2..Len(pool) :
       LET b == pool[n].board
       IN  /\ \E q \in PieceSet(b) :
                /\ q.is_single /\ q.coord_x = 0 /\ q.coord_y = 0
                /\ grid_reads(b, q) # {}
           /\ \E q \in PieceSet(b) :
                /\ q.is_2_by_2 /\ q.coord_x + 2 = width
                /\ grid_reads(b, q) # {}
           /\ \E q \in PieceSet(b) :
                /\ ~q.is_2_by_2 /\ ~q.is_single
                /\ (q.coord_y = 0 \/ Footprint(q) \cap {<<x, b.height - 1>> : x \in 0..(width - 1)} # {})
                /\ Cardinality(grid_reads(b, q)) >= 3

----------------------------------------------------------------------------
(* C17 *)

\* update_grid has run on a mapping in which two footprints share a cell.
OverlapStamped ==
    pc = "board_done" /\ ~NoOverlap(PieceSet(board))

\* C17: update_grid fails when the pieces mapping holds two pieces whose
\* footprints overlap, instead of producing a grid.
C17_UpdateGridFailsOnOverlap ==
    OverlapStamped => board.grid = IndexErrorGrid

\* What update_grid does on such a mapping: it produces a grid, of the
\* board's size, in which every cell of the piece stamped last shows that
\* piece and a shared cell does not show the piece stamped first.
C17_UpdateGridOverwritesOnOverlap ==
    OverlapStamped =>
        /\ board.grid # IndexErrorGrid
        /\ Len(board.grid) = board.height
        /\ \A c \in Footprint(board.pieces[2].piece) :
              board.grid[c[2] + 1][c[1] + 1] = CellMark(board.pieces[2].piece, c)
        /\ board.grid # FootprintGrid(board.height, {board.pieces[1].piece})

\* A horizontal piece whose right cell a 1x1 piece, stamped later, takes.
C17_Witness ==
    /\ OverlapStamped
    /\ board.pieces[1].piece.orientation = "h"
    /\ board.pieces[2].piece.is_single
    /\ board.pieces[2].key = <<board.pieces[1].key[1] + 1, board.pieces[1].key[2]>>
    /\ board.grid[board.pieces[1].key[2] + 1][board.pieces[1].key[1] + 2] = char_single

----------------------------------------------------------------------------
(* C18 *)

\* The pieces a layout of the file shows: one per '^', '<' and '2', and one
\* 2x2 block if there is a '1'.
LayoutPieceCount(layout) ==
    Cardinality({<<x, y>> \in (1..width) \X (1..Len(layout)) :
                   layout[y][x] \in {"^", "<", char_single}})
    + (IF \E y \in 1..Len(layout) : \E x \in 1..width : layout[y][x] = "1"
       THEN 1 ELSE 0)

\* One entry per piece, each under the key that is its piece's position.
OneEntryPerPiece(b) ==
    /\ Len(b.pieces) = Len(board.pieces)
    /\ \A i, j \in 1..Len(b.pieces) :
          i # j => /\ b.pieces[i].key # b.pieces[j].key
                   /\ b.pieces[i].piece.uid # b.pieces[j].piece.uid
    /\ {b.pieces[i].piece.uid : i \in 1..Len(b.pieces)}
       = {board.pieces[i].piece.uid : i \in 1..Len(board.pieces)}
    /\ \A i \in 1..Len(b.pieces) :
          b.pieces[i].key = <<b.pieces[i].piece.coord_x, b.pieces[i].piece.coord_y>>

\* No copy_board call that generate_successors makes on b re-keys the moved
\* piece to a key the mapping holds.
NoEntryOverwritten(b) ==
    \A i \in 1..Len(b.pieces) :
       LET keys == new_keys(b, b.pieces[i].piece)
       IN  \A k \in 1..Len(keys) :
              /\ keys[k] \notin DictKeys(b.pieces)
              /\ Len(copy_board(b, keys[k], b.pieces[i].key).pieces) = Len(b.pieces)

\* C18: on every board of a search (checked when it is created) and on the
\* board the loader builds, the pieces mapping has exactly one entry per
\* piece, under the key (coord_x, coord_y) of that piece, and copy_board
\* overwrites no other piece's entry when it re-keys the moved piece.
C18_OneEntryPerPieceKeyedByPosition ==
    /\ (loaded /\ ~load_error) =>
          /\ OneEntryPerPiece(board)
          /\ Len(board.pieces) = LayoutPieceCount(SubSeq(puzzle_file, 1, board.height))
    /\ \A n \in Newest :
          OneEntryPerPiece(pool[n].board) /\ NoEntryOverwritten(pool[n].board)

\* A piece moves to a cell next to the key of another piece, on a board of
\* six pieces, three moves from the root.
C18_Witness ==
    \E n \in 2..Len(pool) :
       LET b == pool[n].board
       IN  /\ Len(b.pieces) >= 6
           /\ pool[n].depth >= 3
           /\ b.pieces[Len(b.pieces)].key # board.pieces[Len(b.pieces)].key
           /\ \E i, j \in 1..Len(b.pieces) :
                 /\ i # j
                 /\ \E k \in 1..Len(new_keys(b, b.pieces[i].piece)) :
                       Abs(new_keys(b, b.pieces[i].piece)[k][1] - b.pieces[j].key[1])
                       + Abs(new_keys(b, b.pieces[i].piece)[k][2] - b.pieces[j].key[2]) = 1

----------------------------------------------------------------------------
(* C19 *)

\* The two layouts of the file, as written
InitialLayout == SubSeq(puzzle_file, 1, board.height)

GoalLayout == SubSeq(puzzle_file, board.height + 2, Len(puzzle_file))

\* How often the character ch stands in a layout
CharCount(layout, ch) ==
    Cardinality({<<x, y>> \in (1..width) \X (1..Len(layout)) : layout[y][x] = ch})

\* The initial and the goal layout show the same number of pieces of each
\* shape.
SameShapeCounts ==
    /\ Len(GoalLayout) = Len(InitialLayout)
    /\ \A ch \in {"^", "<", char_single, "1"} :
          CharCount(InitialLayout, ch) = CharCount(GoalLayout, ch)

\* File order: by line, then by column
FileOrder(q1, q2) ==
    \/ q1.coord_y < q2.coord_y
    \/ q1.coord_y = q2.coord_y /\ q1.coord_x < q2.coord_x

Manhattan(q, g) == Abs(q.coord_x - g.coord_x) + Abs(q.coord_y - g.coord_y)

\* The initial pieces of g's shape that no goal piece before g was given
Unmatched(g) ==
    {q \in PieceSet(board) :
       /\ SameShape(q, g)
       /\ ~FileOrder(goal_board_dict[q.uid], g)}

\* The initial piece the goal map gives to the goal piece g
MatchOf(g) == CHOOSE q \in PieceSet(board) : q.uid = g.uid

\* C19: when the initial and the goal layout hold the same number of pieces
\* of each shape, the loader's goal map takes every initial piece identity
\* to exactly one goal piece, of the same shape, no goal piece twice and
\* every goal piece once; and each goal piece, in file order, has the
\* same-shape initial piece nearest to it (Manhattan) among those no
\* earlier goal piece was given.
C19_GoalMapIsGreedyBijection ==
    (loaded /\ ~load_error /\ SameShapeCounts) =>
        /\ DOMAIN goal_board_dict = {q.uid : q \in PieceSet(board)}
        /\ Cardinality(PieceSet(board)) = Cardinality(DOMAIN goal_board_dict)
        /\ \A q \in PieceSet(board) :
              /\ SameShape(q, goal_board_dict[q.uid])
              /\ goal_board_dict[q.uid].uid = q.uid
        /\ {goal_board_dict[u] : u \in DOMAIN goal_board_dict} = PieceSet(goal_board)
        /\ Cardinality(PieceSet(goal_board)) = Cardinality(PieceSet(board))
        /\ goal_board.grid = GoalLayout
        /\ \A g \in PieceSet(goal_board) :
              /\ MatchOf(g) \in Unmatched(g)
              /\ \A q \in Unmatched(g) : Manhattan(MatchOf(g), g) <= Manhattan(q, g)

\* A goal piece is given a piece that stands later in the file than another
\* unmatched piece of its shape, which is farther away; three pieces of the
\* shape are on the board.
C19_Witness ==
    /\ loaded /\ ~load_error /\ SameShapeCounts
    /\ \E g \in PieceSet(goal_board) :
          /\ Cardinality({q \in PieceSet(board) : SameShape(q, g)}) >= 3
          /\ \E q \in Unmatched(g) :
                /\ FileOrder(q, MatchOf(g))
                /\ Manhattan(q, g) > Manhattan(MatchOf(g), g)
                /\ Manhattan(MatchOf(g), g) > 0

====
